---- MODULE Spec2Model ----
(***************************************************************************)
(* Model of the unique-number counter of UniqueNumberCounter.{h,cpp}:      *)
(* the compact radix tree detector (CompactRadixTreeAlgorithm with its     *)
(* Node, Edge and IndexedEdges classes), the baseline SetAlgorithm and the *)
(* UniqueNumberCounter wrapper.                                            *)
(*                                                                         *)
(* Strings are sequences of character codes ('0' is 48).  Nodes and edges  *)
(* live in a heap: heap.nodes[n] is the m_Edges container of node n,       *)
(* heap.edges[e] is the record of edge e with its m_Value and m_Next, and  *)
(* heap.Edges is the collection class the typedef Node::Edges names: the   *)
(* code is built with IndexedEdges (ten slots), and UnorderedEdges (a      *)
(* list) and OrderedEdges (a map keyed by label) can take its place.       *)
(* A shared_ptr is an index into the heap, NULL the empty shared_ptr.      *)
(***************************************************************************)
EXTENDS Integers, Sequences, FiniteSets, TLC

VARIABLES
    heap,       \* the Node and Edge objects owned by the radix tree detector
    builds,     \* the same for the detector built with each other Node::Edges
    m_Root,     \* CompactRadixTreeAlgorithm::m_Root
    m_Numbers,  \* SetAlgorithm::m_Numbers
    counter,    \* the UniqueNumberCounter in scope, or NoCounter
    created,    \* the algorithm types CreateInstance was called with
    fed,        \* history: the values passed to IsUnique since the last Reset
    rets,       \* history: what each of those calls returned
    last,       \* history: the last operation and its outcome
    ub          \* TRUE once a call has run into undefined behaviour

vars == <<heap, builds, m_Root, m_Numbers, counter, created, fed, rets, last, ub>>

-----------------------------------------------------------------------------
(* Bounds of the model *)

MaxLen == 3         \* the longest value fed
MaxCalls == 3       \* the number of IsUnique calls between two Resets
MaxChars == 9       \* the number of characters fed between two Resets

(* Program constants *)

NULL == 0           \* the empty shared_ptr
Char0 == 48         \* '0'
Char9 == 57         \* '9'
NumSlots == 10      \* IndexedEdges: m_Container(10)
NonDigit == Char9 + 1    \* ':', the character after '9': isdigit rejects it

NoError == "ok"

-----------------------------------------------------------------------------
(* String helpers *)

\* std::string::substr(pos)
SubstrFrom(s, pos) == SubSeq(s, pos + 1, Len(s))

\* std::string::substr(0, n)
SubstrTo(s, n) == SubSeq(s, 1, n)

Min(a, b) == IF a < b THEN a ELSE b

\* s[0] of a const std::string: the terminating '\0' when s is empty
FirstChar(s) == IF Len(s) = 0 THEN 0 ELSE s[1]

-----------------------------------------------------------------------------------------------------------------------------------------------------
(* Edge *)

\* the three collection classes the typedef Node::Edges can name
IndexedEdges == "IndexedEdges"
UnorderedEdges == "UnorderedEdges"
OrderedEdges == "OrderedEdges"

\* IndexedEdges(): m_Container(10), ten empty shared_ptrs
EmptyContainer == [i \in 1..NumSlots |-> NULL]

\* the m_Edges member of a new Node: an empty list, an empty map, or the ten
\* empty slots
Edges_New(edges_t) == IF edges_t = IndexedEdges THEN EmptyContainer ELSE <<>>

\* Node::Node(): a node whose container holds no edge
Node_New(h) == [h EXCEPT !.nodes = Append(@, Edges_New(h.Edges))]

\* the edge object itself: m_Value(value), m_Next(next)
Edge_Alloc(h, value, next) ==
    [h |-> [h EXCEPT !.edges = Append(@, [m_Value |-> value, m_Next |-> next])],
     e |-> Len(h.edges) + 1]

\* Edge::GetValue() of edge e
Label(h, e) == h.edges[e].m_Value

\* Edge::Edge(value, next): when next is NULL, m_Next becomes a new empty Node.
\* Returns the new heap and the new edge.
Edge_New(h, value, next) ==
    IF next = NULL
    THEN Edge_Alloc(Node_New(h), value, Len(h.nodes) + 1)
    ELSE Edge_Alloc(h, value, next)

\* GetNumCommonChars stopping after the first character
CommonFrom_One(value, remainder, n) ==
    IF n < Len(value) /\ n < Len(remainder) /\ value[n + 1] = remainder[n + 1]
    THEN n + 1
    ELSE n

\* The loop of Edge::GetNumCommonChars, from position n on.
RECURSIVE CommonFrom(_, _, _)
CommonFrom(value, remainder, n) ==
    IF n < Len(value) /\ n < Len(remainder) /\ value[n + 1] = remainder[n + 1]
    THEN CommonFrom(value, remainder, n + 1)
    ELSE n

\* Edge::GetNumCommonChars: raises on an empty remainder.
GetNumCommonChars(value, remainder) ==
    IF remainder = <<>>
    THEN [err |-> "invalid remainder", n |-> 0]
    ELSE [err |-> NoError, n |-> CommonFrom(value, remainder, 0)]

-----------------------------------------------------------------------------
(* IndexedEdges *)

\* the slot of a string: its first character minus '0'
SlotOf(s) == FirstChar(s) - Char0

\* the indexes of a container one slot shorter
InRange_Short(idx) == idx \in 0..(NumSlots - 2)

InRange(idx) == idx \in 0..(NumSlots - 1)

\* IndexedEdges::Add: m_Container[edge->GetValue()[0] - '0'] = edge.  The
\* vector has NumSlots elements and operator[] is unchecked: an index
\* outside 0 .. NumSlots-1 is undefined behaviour.
IndexedEdges_Add(h, n, e) ==
    IF InRange(SlotOf(h.edges[e].m_Value))
    THEN [h |-> [h EXCEPT !.nodes[n][SlotOf(h.edges[e].m_Value) + 1] = e],
          ub |-> FALSE]
    ELSE [h |-> h, ub |-> TRUE]

\* Find counting one character more than the edge and remainder share
FoundEdge_OneMore(e, c) ==
    [first |-> c.n + 1, second |-> e, err |-> c.err, ub |-> FALSE]

\* the pair Find returns for the edge e of the slot
FoundEdge(e, c) == [first |-> c.n, second |-> e, err |-> c.err, ub |-> FALSE]

\* IndexedEdges::Find: the edge of slot remainder[0] - '0' and the number of
\* characters it shares with remainder.
IndexedEdges_Find(h, n, remainder) ==
    IF ~InRange(SlotOf(remainder))
    THEN [first |-> 0, second |-> NULL, err |-> NoError, ub |-> TRUE]
    ELSE IF h.nodes[n][SlotOf(remainder) + 1] = NULL
    THEN [first |-> 0, second |-> NULL, err |-> NoError, ub |-> FALSE]
    ELSE FoundEdge(h.nodes[n][SlotOf(remainder) + 1],
                   GetNumCommonChars(
                       h.edges[h.nodes[n][SlotOf(remainder) + 1]].m_Value, remainder))

-----------------------------------------------------------------------------
(* UnorderedEdges and OrderedEdges *)

\* a default-constructed pair<size_t, shared_ptr<Edge> >
NoEdge == [first |-> 0, second |-> NULL, err |-> NoError, ub |-> FALSE]

\* ret.first = edge->GetNumCommonChars(remainder);
\* if (ret.first > 0) ret.second = edge
CandidateOf(e, c) ==
    [first |-> c.n, second |-> IF c.n > 0 THEN e ELSE NULL, err |-> c.err,
     ub |-> FALSE]

Candidate(h, e, remainder) ==
    CandidateOf(e, GetNumCommonChars(h.edges[e].m_Value, remainder))

\* UnorderedEdges::Add: m_Container.push_back(edge)
UnorderedEdges_Add(h, n, e) ==
    [h |-> [h EXCEPT !.nodes[n] = Append(@, e)], ub |-> FALSE]

\* UnorderedEdges::Find looking at one edge only
UnorderedEdges_Scan_One(h, n, i, remainder) ==
    IF i > Len(h.nodes[n])
    THEN NoEdge
    ELSE Candidate(h, h.nodes[n][i], remainder)

\* The loop of UnorderedEdges::Find from element i of the list on: the first
\* edge that shares characters with remainder.
RECURSIVE UnorderedEdges_Scan(_, _, _, _)
UnorderedEdges_Scan(h, n, i, remainder) ==
    IF i > Len(h.nodes[n])
    THEN NoEdge
    ELSE IF \/ Candidate(h, h.nodes[n][i], remainder).err # NoError
            \/ Candidate(h, h.nodes[n][i], remainder).first > 0
    THEN Candidate(h, h.nodes[n][i], remainder)
    ELSE UnorderedEdges_Scan(h, n, i + 1, remainder)

\* UnorderedEdges::Find
UnorderedEdges_Find(h, n, remainder) == UnorderedEdges_Scan(h, n, 1, remainder)

\* operator< of std::string
RECURSIVE Less(_, _)
Less(a, b) ==
    IF b = <<>> THEN FALSE
    ELSE IF a = <<>> THEN TRUE
    ELSE IF a[1] # b[1] THEN a[1] < b[1]
    ELSE Less(Tail(a), Tail(b))

\* map::upper_bound(key) on the map c, a sequence of pairs in the order of
\* their keys: the position of the first pair whose key is greater than key,
\* Len(c) + 1 (end()) when there is none.
upper_bound(c, key) ==
    IF \E i \in 1..Len(c) : Less(key, c[i].first)
    THEN CHOOSE i \in 1..Len(c) :
            /\ Less(key, c[i].first)
            /\ \A j \in 1..(i - 1) : ~Less(key, c[j].first)
    ELSE Len(c) + 1

\* map::insert(pair) at position i: nothing is inserted when the key is
\* already in the map
map_insert(c, i, pair) ==
    IF \E j \in 1..Len(c) : c[j].first = pair.first
    THEN c
    ELSE SubSeq(c, 1, i - 1) \o <<pair>> \o SubSeq(c, i, Len(c))

\* OrderedEdges::Add: m_Container.insert(make_pair(edge->GetValue(), edge)).
\* The key is the label the edge has now; a later split shortens the label
\* and leaves the key.
OrderedEdges_Add(h, n, e) ==
    [h |-> [h EXCEPT !.nodes[n] =
               map_insert(@, upper_bound(@, h.edges[e].m_Value),
                          [first |-> h.edges[e].m_Value, second |-> e])],
     ub |-> FALSE]

\* OrderedEdges::Find, "if (iter != m_Container.end())": the edge at iter
OrderedEdges_AtIter(h, c, iter, remainder) ==
    IF iter # Len(c) + 1
    THEN Candidate(h, c[iter].second, remainder)
    ELSE NoEdge

\* OrderedEdges::Find without the look at the edge before iter
OrderedEdges_Before_None(h, c, iter, remainder, ret) == ret

\* OrderedEdges::Find, "if (ret.first == 0) if (iter-- != begin())": the
\* edge before iter.  At begin() the decrement has no effect the function
\* observes: iter is not used again.
OrderedEdges_Before(h, c, iter, remainder, ret) ==
    IF ret.err # NoError
    THEN ret
    ELSE IF ret.first = 0 /\ iter # 1
    THEN Candidate(h, c[iter - 1].second, remainder)
    ELSE ret

\* OrderedEdges::Find on a map that is not empty, given iter
OrderedEdges_FindAt(h, c, iter, remainder) ==
    OrderedEdges_Before(h, c, iter, remainder,
                        OrderedEdges_AtIter(h, c, iter, remainder))

\* OrderedEdges::Find
OrderedEdges_Find(h, n, remainder) ==
    IF h.nodes[n] = <<>>
    THEN NoEdge
    ELSE OrderedEdges_FindAt(h, h.nodes[n],
                             upper_bound(h.nodes[n], remainder), remainder)

-----------------------------------------------------------------------------
(* Node::Edges, "Which edges collection to use" *)

\* m_Edges.Add(edge) on node n
Edges_Add(h, n, e) ==
    IF h.Edges = IndexedEdges THEN IndexedEdges_Add(h, n, e)
    ELSE IF h.Edges = UnorderedEdges THEN UnorderedEdges_Add(h, n, e)
    ELSE OrderedEdges_Add(h, n, e)

\* m_Edges.Find(remainder) on node n
Edges_Find(h, n, remainder) ==
    IF h.Edges = IndexedEdges THEN IndexedEdges_Find(h, n, remainder)
    ELSE IF h.Edges = UnorderedEdges THEN UnorderedEdges_Find(h, n, remainder)
    ELSE OrderedEdges_Find(h, n, remainder)

\* The edges of node n in the order of the container's iterators, as
\* Node::Print walks them (the empty slots of IndexedEdges left out).
NotNull(e) == e # NULL

map_second(c) == [i \in 1..Len(c) |-> c[i].second]

EdgesOf(h, n) ==
    IF h.Edges = IndexedEdges THEN SelectSeq(h.nodes[n], NotNull)
    ELSE IF h.Edges = UnorderedEdges THEN h.nodes[n]
    ELSE map_second(h.nodes[n])

-----------------------------------------------------------------------------
(* Node and Edge: eating a remainder *)

\* the outcome of a step that raised err and changed nothing
Raised(h, remainder, isUnique, err) ==
    [h |-> h, next |-> NULL, remainder |-> remainder, isUnique |-> isUnique,
     err |-> err, ub |-> FALSE]

\* Node(firstEdge, secondEdge) without "m_Edges.Add(secondEdge)"
Node_Add2_FirstOnly(n, a1, secondEdge) ==
    [added |-> a1, n |-> n, ub1 |-> a1.ub]

\* m_Edges.Add(firstEdge); m_Edges.Add(secondEdge) on the new node n
Node_Add2(n, a1, secondEdge) ==
    [added |-> Edges_Add(a1.h, n, secondEdge), n |-> n, ub1 |-> a1.ub]

\* Node::Node(firstEdge, secondEdge)
Node_New2(h, firstEdge, secondEdge) ==
    IF firstEdge = NULL \/ secondEdge = NULL
    THEN [added |-> [h |-> h, ub |-> FALSE], n |-> NULL, ub1 |-> FALSE,
          err |-> "invalid edge"]
    ELSE [err |-> NoError] @@
         Node_Add2(Len(h.nodes) + 1,
                   Edges_Add(Node_New(h), Len(h.nodes) + 1, firstEdge),
                   secondEdge)

\* Edge::Eat with "isUnique = true" left out of the split
Edge_Fix_NotUnique(h, e, commonValue, remainder, isUnique, node) ==
    IF node.err # NoError
    THEN Raised(h, remainder, isUnique, node.err)
    ELSE [h |-> [node.added.h EXCEPT !.edges[e] =
                    [m_Value |-> commonValue, m_Next |-> node.n]],
          next |-> NULL, remainder |-> <<>>, isUnique |-> isUnique,
          err |-> NoError, ub |-> node.ub1 \/ node.added.ub]

\* Edge::Eat with "remainder = \"\"" left out of the split
Edge_Fix_KeepRemainder(h, e, commonValue, remainder, isUnique, node) ==
    IF node.err # NoError
    THEN Raised(h, remainder, isUnique, node.err)
    ELSE [h |-> [node.added.h EXCEPT !.edges[e] =
                    [m_Value |-> commonValue, m_Next |-> node.n]],
          next |-> NULL, remainder |-> remainder, isUnique |-> TRUE,
          err |-> NoError, ub |-> node.ub1 \/ node.added.ub]

\* Edge::Eat with "m_Next.reset(new Node(firstEdge, secondEdge))" left out of
\* the split: the new node is made and dropped
Edge_Fix_KeepNext(h, e, commonValue, remainder, isUnique, node) ==
    IF node.err # NoError
    THEN Raised(h, remainder, isUnique, node.err)
    ELSE [h |-> [node.added.h EXCEPT !.edges[e].m_Value = commonValue],
          next |-> NULL, remainder |-> <<>>, isUnique |-> TRUE,
          err |-> NoError, ub |-> node.ub1 \/ node.added.ub]

\* Edge::Eat, "Fix this edge": m_Value = commonValue; m_Next = the new node;
\* remainder = ""; isUnique = true
Edge_Fix(h, e, commonValue, remainder, isUnique, node) ==
    IF node.err # NoError
    THEN Raised(h, remainder, isUnique, node.err)
    ELSE [h |-> [node.added.h EXCEPT !.edges[e] =
                    [m_Value |-> commonValue, m_Next |-> node.n]],
          next |-> NULL, remainder |-> <<>>, isUnique |-> TRUE,
          err |-> NoError, ub |-> node.ub1 \/ node.added.ub]

\* Edge::Eat, "Create two new edges", given the first one
Edge_Split2(h, e, commonValue, remainder, isUnique, first, second) ==
    Edge_Fix(h, e, commonValue, remainder, isUnique,
             Node_New2(second.h, first.e, second.e))

\* Edge::Eat with the whole remainder as secondChildValue
Edge_Split1_WholeRemainder(h, e, numCommonChars, remainder, isUnique, first) ==
    Edge_Split2(h, e, SubstrTo(h.edges[e].m_Value, numCommonChars), remainder,
                isUnique, first, Edge_New(first.h, remainder, NULL))

\* Edge::Eat, the split: the common value and the second new edge
Edge_Split1(h, e, numCommonChars, remainder, isUnique, first) ==
    Edge_Split2(h, e, SubstrTo(h.edges[e].m_Value, numCommonChars), remainder,
                isUnique, first,
                Edge_New(first.h, SubstrFrom(remainder, numCommonChars), NULL))

\* Edge::Eat with "new Edge(firstChildValue)" for the first edge
Edge_Split_NewChild(h, e, numCommonChars, remainder, isUnique) ==
    Edge_Split1(h, e, numCommonChars, remainder, isUnique,
                Edge_New(h, SubstrFrom(h.edges[e].m_Value, numCommonChars), NULL))

\* Edge::Eat, the partial match: the edge is split
Edge_Split(h, e, numCommonChars, remainder, isUnique) ==
    Edge_Split1(h, e, numCommonChars, remainder, isUnique,
                Edge_New(h, SubstrFrom(h.edges[e].m_Value, numCommonChars),
                         h.edges[e].m_Next))

\* Edge::Eat with "remainder = remainder.substr(numCommonChars)" left out of
\* the full match
Edge_Traverse_KeepRemainder(h, e, numCommonChars, remainder, isUnique) ==
    [h |-> h, next |-> h.edges[e].m_Next, remainder |-> remainder,
     isUnique |-> isUnique, err |-> NoError, ub |-> FALSE]

\* Edge::Eat with "m_Next.reset(new Node)" in the full match
Edge_Traverse_NewNext(h, e, numCommonChars, remainder, isUnique) ==
    [h |-> [Node_New(h) EXCEPT !.edges[e].m_Next = Len(h.nodes) + 1],
     next |-> Len(h.nodes) + 1,
     remainder |-> SubstrFrom(remainder, numCommonChars),
     isUnique |-> isUnique, err |-> NoError, ub |-> FALSE]

\* Edge::Eat, the full match: the edge is traversed
Edge_Traverse(h, e, numCommonChars, remainder, isUnique) ==
    [h |-> h, next |-> h.edges[e].m_Next,
     remainder |-> SubstrFrom(remainder, numCommonChars),
     isUnique |-> isUnique, err |-> NoError, ub |-> FALSE]

\* Edge::Eat without "numCommonChars == 0" in the check of its arguments:
\* "if (numCommonChars > 0)" then skips the edge
Edge_Eat_ZeroPasses(h, e, numCommonChars, remainder, isUnique) ==
    IF numCommonChars > Min(Len(h.edges[e].m_Value), Len(remainder))
    THEN Raised(h, remainder, isUnique, "invalid numCommonChars")
    ELSE IF remainder = <<>>
    THEN Raised(h, remainder, isUnique, "invalid remainder")
    ELSE IF numCommonChars = 0
    THEN Raised(h, remainder, isUnique, NoError)
    ELSE IF numCommonChars = Len(h.edges[e].m_Value)
    THEN Edge_Traverse(h, e, numCommonChars, remainder, isUnique)
    ELSE Edge_Split(h, e, numCommonChars, remainder, isUnique)

\* Edge::Eat(numCommonChars, remainder, isUnique) on edge e
Edge_Eat(h, e, numCommonChars, remainder, isUnique) ==
    IF \/ numCommonChars = 0
       \/ numCommonChars > Min(Len(h.edges[e].m_Value), Len(remainder))
    THEN Raised(h, remainder, isUnique, "invalid numCommonChars")
    ELSE IF remainder = <<>>
    THEN Raised(h, remainder, isUnique, "invalid remainder")
    ELSE IF numCommonChars = Len(h.edges[e].m_Value)
    THEN Edge_Traverse(h, e, numCommonChars, remainder, isUnique)
    ELSE Edge_Split(h, e, numCommonChars, remainder, isUnique)

\* Node::Eat with "isUnique = true" left out of the new edge
Node_AddNew_NotUnique(ubSoFar, added) ==
    [h |-> added.h, next |-> NULL, remainder |-> <<>>, isUnique |-> FALSE,
     err |-> NoError, ub |-> ubSoFar \/ added.ub]

\* Node::Eat: m_Edges.Add(newEdge); remainder = ""; isUnique = true
Node_AddNew(ubSoFar, added) ==
    [h |-> added.h, next |-> NULL, remainder |-> <<>>, isUnique |-> TRUE,
     err |-> NoError, ub |-> ubSoFar \/ added.ub]

Node_NewEdge(n, ubSoFar, newEdge) ==
    Node_AddNew(ubSoFar, Edges_Add(newEdge.h, n, newEdge.e))

\* Node::Eat after the matching edge, if any, has eaten: a new edge takes
\* what is left when no node follows
Node_Rest(n, ate) ==
    IF ate.err # NoError
    THEN ate
    ELSE IF ate.next = NULL /\ ate.remainder # <<>>
    THEN Node_NewEdge(n, ate.ub, Edge_New(ate.h, ate.remainder, NULL))
    ELSE ate

\* Node::Eat: if (ret.first > 0) next = ret.second->Eat(...)
Node_Follow(h, remainder, isUnique, ret) ==
    IF ret.err # NoError
    THEN Raised(h, remainder, isUnique, ret.err)
    ELSE IF ret.first > 0
    THEN Edge_Eat(h, ret.second, ret.first, remainder, isUnique)
    ELSE [h |-> h, next |-> NULL, remainder |-> remainder,
          isUnique |-> isUnique, err |-> NoError, ub |-> ret.ub]

\* Node::Eat(remainder, isUnique) on node n
Node_Eat(h, n, remainder, isUnique) ==
    IF remainder = <<>>
    THEN Raised(h, remainder, isUnique, "invalid remainder")
    ELSE Node_Rest(n, Node_Follow(h, remainder, isUnique,
                                  Edges_Find(h, n, remainder)))

-----------------------------------------------------------------------------
(* CompactRadixTreeAlgorithm *)

\* m_Root(new Node) in a build whose Node::Edges is edges_t: one fresh root
\* and nothing else
NewTree(edges_t) ==
    [heap |-> Node_New([nodes |-> <<>>, edges |-> <<>>, Edges |-> edges_t]),
     root |-> 1]

\* CompactRadixTreeAlgorithm() as the code is built, with IndexedEdges
EmptyTree == NewTree(IndexedEdges)

\* Reset that keeps the tree
Tree_Reset_Keep(h, root) == [heap |-> h, root |-> root]

\* CompactRadixTreeAlgorithm::Reset(): m_Root.reset(new Node); the old tree,
\* owned through m_Root alone, is released.
Tree_Reset(h, root) == NewTree(h.Edges)

\* The detectors built with the two other collection classes, after
\* construction
NewBuilds == [edges_t \in {UnorderedEdges, OrderedEdges} |-> NewTree(edges_t).heap]

\* The while loop of IsUnique: current = current->Eat(remainder, isUnique)
\* while remainder is not empty.  r is what the last Eat left.
RECURSIVE IsUniqueLoop(_, _)
IsUniqueLoop(r, ubSoFar) ==
    IF r.err # NoError \/ r.remainder = <<>>
    THEN [h |-> r.h, ret |-> r.isUnique, err |-> r.err, ub |-> ubSoFar \/ r.ub]
    ELSE IF r.next = NULL
    THEN [h |-> r.h, ret |-> r.isUnique, err |-> r.err, ub |-> TRUE]
    ELSE IsUniqueLoop(Node_Eat(r.h, r.next, r.remainder, r.isUnique),
                      ubSoFar \/ r.ub)

\* CompactRadixTreeAlgorithm::IsUnique(value)
Tree_IsUnique(h, root, value) ==
    IsUniqueLoop([h |-> h, next |-> root, remainder |-> value,
                  isUnique |-> FALSE, err |-> NoError, ub |-> FALSE], FALSE)

\* The same loop, keeping what it held before the first Eat and after each
\* Eat: the heap, current (next), remainder and isUnique.
RECURSIVE IsUniqueSteps(_)
IsUniqueSteps(r) ==
    IF r.err # NoError \/ r.remainder = <<>> \/ r.next = NULL
    THEN <<r>>
    ELSE <<r>> \o IsUniqueSteps(Node_Eat(r.h, r.next, r.remainder, r.isUnique))

\* the steps of IsUnique(value)
Tree_IsUniqueSteps(h, root, value) ==
    IsUniqueSteps([h |-> h, next |-> root, remainder |-> value,
                   isUnique |-> FALSE, err |-> NoError, ub |-> FALSE])

-----
(* SetAlgorithm *)

\* SetAlgorithm::IsUnique(number): insert, and report whether it was new.
Set_IsUnique(numbers, number) ==
    [numbers |-> numbers \cup {number}, ret |-> number \notin numbers]

-----------------------------------------------------------------------------
(* Inputs *)

\* The digits of the values fed to the detectors: three of the ten, so that
\* a node can get a third edge next to the two a split gives it.
Digits == {Char0, Char0 + 1, Char0 + 2}

\* every non-empty digit string of the model
Values == UNION {[1..n -> Digits] : n \in 1..MaxLen}

RECURSIVE NumChars(_)
NumChars(seq) == IF seq = <<>> THEN 0 ELSE Len(Head(seq)) + NumChars(Tail(seq))

Range(seq) == {seq[i] : i \in 1..Len(seq)}

\* the values fed before call i
Earlier(seq, i) == {seq[j] : j \in 1..(i - 1)}

CanFeed(v) ==
    /\ ~ub
    /\ Len(fed) < MaxCalls
    /\ NumChars(fed) + Len(v) <= MaxChars

-----------------------------------------------------------------------------
(* The two detectors used directly, as in TEST LargeDataSet: every call goes
   to the radix tree and to the set. *)

Tree == "CompactRadixTree"
Set == "Set"
NullAlgorithm == "NULL"     \* shared_ptr<IUniqueNumberAlgorithm>()

NoCounter == [exists |-> FALSE]

EngineInit ==
    /\ heap = EmptyTree.heap
    /\ builds = NewBuilds
    /\ m_Root = EmptyTree.root
    /\ m_Numbers = {}
    /\ counter = NoCounter
    /\ created = {Tree, Set}
    /\ fed = <<>>
    /\ rets = <<>>
    /\ last = [op |-> "CreateInstance"]
    /\ ub = FALSE

\* CompactRadixTreeAlgorithm::Reset and SetAlgorithm::Reset
Reset ==
    /\ ~ub
    /\ heap' = Tree_Reset(heap, m_Root).heap
    /\ m_Root' = Tree_Reset(heap, m_Root).root
    /\ m_Numbers' = {}
    /\ fed' = <<>>
    /\ rets' = <<>>
    /\ last' = [op |-> "Reset", before |-> Range(fed)]
    /\ UNCHANGED <<builds, counter, created, ub>>

\* CompactRadixTreeAlgorithm::IsUnique(v) and SetAlgorithm::IsUnique(v).
\* A call that ran into undefined behaviour may return either result, and
\* nothing is known of the process afterwards: it takes no further step.
IsUnique(v) ==
    /\ CanFeed(v)
    /\ LET t == Tree_IsUnique(heap, m_Root, v)
           s == Set_IsUnique(m_Numbers, v)
       IN  /\ heap' = t.h
           /\ m_Numbers' = s.numbers
           /\ ub' = t.ub
           /\ fed' = Append(fed, v)
           /\ \E r \in (IF t.ub THEN BOOLEAN ELSE {t.ret}) :
                /\ rets' = Append(rets, [tree |-> r, set |-> s.ret, err |-> t.err])
                /\ last' = [op |-> "IsUnique", err |-> t.err, changed |-> t.h # heap]
    /\ UNCHANGED <<builds, m_Root, counter, created>>

\* equal-length values: the first value fed after a Reset fixes the length
SameLength(v) == IF fed = <<>> THEN TRUE ELSE Len(v) = Len(fed[1])

EqNext ==
    \/ Reset
    \/ \E v \in Values : SameLength(v) /\ IsUnique(v)

SpecEq == EngineInit /\ [][EqNext]_vars

\* values of any length
AnyNext ==
    \/ Reset
    \/ \E v \in Values : IsUnique(v)

SpecAny == EngineInit /\ [][AnyNext]_vars

-----------------------------------------------------------------------------
(* The radix tree detector built with each of the three collection classes,
   every call going to the three of them. *)

Strategies == {UnorderedEdges, OrderedEdges, IndexedEdges}

\* the heap of the detector built with edges_t
Build(edges_t) == IF edges_t = IndexedEdges THEN heap ELSE builds[edges_t]

\* CompactRadixTreeAlgorithm::Reset() in every build
ResetEach ==
    /\ ~ub
    /\ heap' = Tree_Reset(heap, m_Root).heap
    /\ builds' = [edges_t \in DOMAIN builds |->
                     Tree_Reset(builds[edges_t], m_Root).heap]
    /\ m_Root' = Tree_Reset(heap, m_Root).root
    /\ fed' = <<>>
    /\ rets' = <<>>
    /\ last' = [op |-> "Reset"]
    /\ UNCHANGED <<m_Numbers, counter, created, ub>>

\* CompactRadixTreeAlgorithm::IsUnique(v) in every build; last.from keeps the
\* trees the call started from
IsUniqueEach(v) ==
    /\ CanFeed(v)
    /\ LET t == Tree_IsUnique(heap, m_Root, v)
           o == [edges_t \in DOMAIN builds |->
                    Tree_IsUnique(builds[edges_t], m_Root, v)]
       IN  /\ heap' = t.h
           /\ ub' = t.ub
           /\ builds' = [edges_t \in DOMAIN builds |-> o[edges_t].h]
           /\ fed' = Append(fed, v)
           /\ \E r \in (IF t.ub THEN BOOLEAN ELSE {t.ret}) :
                /\ rets' = Append(rets,
                       [tree |-> r, err |-> t.err,
                        other |-> [edges_t \in DOMAIN builds |-> o[edges_t].ret],
                        errs |-> {o[edges_t].err : edges_t \in DOMAIN builds}])
                /\ last' = [op |-> "IsUnique", err |-> t.err, changed |-> t.h # heap,
                            from |-> [edges_t \in Strategies |-> Build(edges_t)]]
    /\ UNCHANGED <<m_Root, m_Numbers, counter, created>>

EdgesNext ==
    \/ ResetEach
    \/ \E v \in Values : SameLength(v) /\ IsUniqueEach(v)

SpecEdges == EngineInit /\ [][EdgesNext]_vars

-----------------------------------------------------------------------------
(* The same calls with values that use the first and the last of the ten
   digits, and so the first and the last slot of IndexedEdges. *)

SlotDigits == {Char0, Char0 + 1, Char9}

SlotValues == UNION {[1..n -> SlotDigits] : n \in 1..MaxLen}

SlotsNext ==
    \/ ResetEach
    \/ \E v \in SlotValues : SameLength(v) /\ IsUniqueEach(v)

SpecSlots == EngineInit /\ [][SlotsNext]_vars

-----------------------------------------------------------------------------
(* UniqueNumberCounter *)

isdigit(ch) == ch \in Char0..Char9

\* m_CheckNumber without the isdigit loop
m_CheckNumber_LengthOnly(number, m_NumExpectedDigits) ==
    IF Len(number) # m_NumExpectedDigits
    THEN "Invalid number of digits"
    ELSE NoError

\* UniqueNumberCounter::m_CheckNumber: the error it raises, if any
m_CheckNumber(number, m_NumExpectedDigits) ==
    IF Len(number) # m_NumExpectedDigits
    THEN "Invalid number of digits"
    ELSE IF \E i \in 1..Len(number) : ~isdigit(number[i])
    THEN "Not a number"
    ELSE NoError

\* m_Algorithm->IsUnique(number) on the detector of type alg
Detector_IsUnique(alg, h, root, numbers, number) ==
    IF alg = Tree
    THEN [numbers |-> numbers] @@ Tree_IsUnique(h, root, number)
    ELSE [h |-> h, err |-> NoError, ub |-> FALSE] @@ Set_IsUnique(numbers, number)

\* a constructor that does not reset the algorithm
Detector_Reset_None(alg, h, root, numbers) ==
    [heap |-> h, root |-> root, numbers |-> numbers]

\* m_Algorithm->Reset()
Detector_Reset(alg, h, root, numbers) ==
    IF alg = Tree
    THEN [numbers |-> numbers] @@ Tree_Reset(h, root)
    ELSE [heap |-> h, root |-> root, numbers |-> {}]

\* ProcessNumber counting every number it passes on
Counter_Count_Always(c, d) ==
    IF d.err = NoError THEN [c EXCEPT !.m_Count = @ + 1] ELSE c

\* if (m_Algorithm->IsUnique(number)) m_Count++
Counter_Count(c, d) ==
    IF d.err = NoError /\ d.ret THEN [c EXCEPT !.m_Count = @ + 1] ELSE c

\* the numbers given to ProcessNumber: the digit strings, the empty string
\* and strings with a non-digit character
Zeros(n) == [i \in 1..n |-> Char0]

\* the digits of the numbers given to the wrapper
CounterDigits == {Char0, Char0 + 1}

DigitStrings(n) == [1..n -> CounterDigits]

Numbers ==
    UNION {DigitStrings(n) : n \in 0..MaxLen}
           \cup UNION {{[Zeros(n) EXCEPT ![i] = NonDigit] : i \in 1..n} : n \in 1..MaxLen}

Init ==
    /\ heap = EmptyTree.heap
    /\ builds = NewBuilds
    /\ m_Root = EmptyTree.root
    /\ m_Numbers = {}
    /\ counter = NoCounter
    /\ created \in {{Tree}, {Set}}
    /\ fed = <<>>
    /\ rets = <<>>
    /\ last = [op |-> "CreateInstance"]
    /\ ub = FALSE

\* the constructor's checks without the one of numExpectedDigits
ConstructError_NullOnly(algorithm, numExpectedDigits) ==
    IF algorithm = NullAlgorithm THEN "NULL ptr" ELSE NoError

\* the argument checks of the constructor: the error raised, if any
ConstructError(algorithm, numExpectedDigits) ==
    IF algorithm = NullAlgorithm THEN "NULL ptr"
    ELSE IF numExpectedDigits <= 0 THEN "numExpectedDigits cannot be zero"
    ELSE NoError

\* UniqueNumberCounter::UniqueNumberCounter(algorithm, numExpectedDigits).
\* A constructor that raises leaves no object behind; one that succeeds ends
\* with m_Algorithm->Reset().  The wrapper of an earlier construction is gone.
Construct(algorithm, numExpectedDigits) ==
    /\ ~ub
    /\ last' = [op |-> "Construct",
                err |-> ConstructError(algorithm, numExpectedDigits),
                before |-> Range(fed)]
    /\ IF ConstructError(algorithm, numExpectedDigits) # NoError
       THEN /\ counter' = NoCounter
            /\ UNCHANGED <<heap, m_Root, m_Numbers, fed, rets>>
       ELSE /\ counter' = [exists |-> TRUE, m_Algorithm |-> algorithm,
                           m_NumExpectedDigits |-> numExpectedDigits,
                           m_Count |-> 0]
            /\ heap' = Detector_Reset(algorithm, heap, m_Root, m_Numbers).heap
            /\ m_Root' = Detector_Reset(algorithm, heap, m_Root, m_Numbers).root
            /\ m_Numbers' = Detector_Reset(algorithm, heap, m_Root, m_Numbers).numbers
            /\ fed' = <<>>
            /\ rets' = <<>>
    /\ UNCHANGED <<builds, created, ub>>

\* UniqueNumberCounter::ProcessNumber(number), a number m_CheckNumber rejects
Rejected(number) ==
    /\ last' = [op |-> "ProcessNumber",
                err |-> m_CheckNumber(number, counter.m_NumExpectedDigits)]
    /\ UNCHANGED <<heap, m_Root, m_Numbers, counter, fed, rets, ub>>

\* UniqueNumberCounter::ProcessNumber(number), a number m_CheckNumber accepts
Accepted(number, d) ==
    /\ CanFeed(number)
    /\ heap' = d.h
    /\ m_Numbers' = d.numbers
    /\ ub' = d.ub
    /\ fed' = Append(fed, number)
    /\ \E r \in (IF d.ub THEN BOOLEAN ELSE {d.ret}) :
         /\ counter' = Counter_Count(counter, [d EXCEPT !.ret = r])
         /\ rets' = Append(rets, [ret |-> r, err |-> d.err])
         /\ last' = [op |-> "ProcessNumber", err |-> d.err, ret |-> r]
    /\ UNCHANGED m_Root

ProcessNumber(number) ==
    /\ ~ub
    /\ counter.exists
    /\ IF m_CheckNumber(number, counter.m_NumExpectedDigits) # NoError
       THEN Rejected(number)
       ELSE Accepted(number, Detector_IsUnique(counter.m_Algorithm, heap, m_Root,
                                               m_Numbers, number))
    /\ UNCHANGED <<builds, created>>

Next ==
    \/ \E algorithm \in created \cup {NullAlgorithm}, n \in 0..MaxLen :
         Construct(algorithm, n)
    \/ \E number \in Numbers : ProcessNumber(number)

Spec == Init /\ [][Next]_vars

-----------------------------------------------------------------------------
(* The same dataset in another order: ProcessDataset of Test.cpp on a new
   radix tree detector. *)

\* for each entry: counter.ProcessNumber(entry); w is the tree and the count
RECURSIVE ProcessEntries(_, _, _)
ProcessEntries(numDigits, dataset, w) ==
    IF dataset = <<>> \/ m_CheckNumber(Head(dataset), numDigits) # NoError
    THEN w
    ELSE ProcessEntries(numDigits, Tail(dataset),
             [w EXCEPT !.d = Tree_IsUnique(w.d.h, w.root, Head(dataset)),
                       !.c = Counter_Count(w.c, Tree_IsUnique(w.d.h, w.root,
                                                              Head(dataset)))])

\* ProcessDataset(numDigits, dataset, algorithm): the final GetCount()
ProcessDataset(numDigits, dataset) ==
    ProcessEntries(numDigits, dataset,
                   [d |-> [h |-> EmptyTree.heap], root |-> EmptyTree.root,
                    c |-> [m_Count |-> 0]]).c.m_Count

Permuted(seq, p) == [i \in 1..Len(seq) |-> seq[p[i]]]

-----------------------------------------------------------------------------
(* Node::Eat and Edge::Eat called on their own, as a unit test of the two
   classes would: a tree is built with IsUnique, then one of its nodes or
   edges is given a remainder, and the tree is dropped by Reset. *)

\* the values the trees are built from, and the remainders of the calls
EatValues == UNION {DigitStrings(n) : n \in 1..MaxLen}

Remainders == UNION {DigitStrings(n) : n \in 0..(MaxLen - 1)}

\* neither Eat has been called on the tree by itself
Whole == last.op \notin {"Node::Eat", "Edge::Eat"}

\* the call op(numCommonChars, remainder, isUnique) on the node or edge at
\* has ended with out; remainder and isUnique are the caller's variables
Called(op, at, numCommonChars, remainder, isUnique, out) ==
    /\ heap' = out.h
    /\ ub' = out.ub
    /\ last' = [op |-> op, at |-> at, numCommonChars |-> numCommonChars,
                remainder |-> remainder, isUnique |-> isUnique, from |-> heap,
                out |-> [next |-> out.next, remainder |-> out.remainder,
                         isUnique |-> out.isUnique, err |-> out.err]]
    /\ UNCHANGED <<builds, m_Root, m_Numbers, counter, created, fed, rets>>

\* node->Eat(remainder, isUnique)
EatNode(n, remainder, isUnique) ==
    /\ ~ub
    /\ Whole
    /\ Called("Node::Eat", n, 0, remainder, isUnique,
              Node_Eat(heap, n, remainder, isUnique))

\* edge->Eat(numCommonChars, remainder, isUnique)
EatEdge(e, numCommonChars, remainder, isUnique) ==
    /\ ~ub
    /\ Whole
    /\ Called("Edge::Eat", e, numCommonChars, remainder, isUnique,
              Edge_Eat(heap, e, numCommonChars, remainder, isUnique))

\* IsUnique(v) while the tree is built
Grow(v) ==
    /\ Whole
    /\ Len(fed) < MaxCalls - 1
    /\ SameLength(v)
    /\ IsUnique(v)

EatNext ==
    \/ Reset
    \/ \E v \in EatValues : Grow(v)
    \/ \E n \in 1..Len(heap.nodes), remainder \in Remainders, isUnique \in BOOLEAN :
          EatNode(n, remainder, isUnique)
    \/ \E e \in 1..Len(heap.edges), numCommonChars \in 0..MaxLen,
          remainder \in Remainders, isUnique \in BOOLEAN :
          EatEdge(e, numCommonChars, remainder, isUnique)

SpecEat == EngineInit /\ [][EatNext]_vars

-----------------------------------------------------------------------------
(* Properties *)

OnTree == counter.exists /\ counter.m_Algorithm = Tree

\* C1: fed the same equal-length digit strings after a Reset, the radix tree
\* and the set return the same result on every call, and the number of true
\* results is the number of distinct strings fed.
C1_TreeAgreesWithSet ==
    /\ \A i \in 1..Len(rets) : rets[i].err = NoError /\ rets[i].tree = rets[i].set
    /\ Cardinality({i \in 1..Len(rets) : rets[i].tree}) = Cardinality(Range(fed))

C1_Witness ==
    /\ Len(fed) = 3
    /\ fed[1] = fed[3]
    /\ fed[1] # fed[2]
    /\ rets[1].tree /\ rets[2].tree /\ ~rets[3].tree
    /\ ~rets[3].set

\* C2: for non-empty digit strings of any length, IsUnique(v) on the radix
\* tree returns true if and only if v was not passed since the last Reset
\* (stated for the calls whose behaviour is defined).
C2_TrueIffNotPassed ==
    ~ub => \A i \in 1..Len(rets) :
               /\ rets[i].err = NoError
               /\ rets[i].tree = (fed[i] \notin Earlier(fed, i))

ReturnsTrue(t) == t.ret /\ t.err = NoError /\ ~t.ub

\* C3: after Reset the tree is a single root node with no edges, and
\* IsUnique(v) would return true for every non-empty digit string v.
C3_ResetEmptiesTree ==
    last.op = "Reset" =>
        /\ Len(heap.nodes) = 1
        /\ heap.edges = <<>>
        /\ m_Root = 1
        /\ \A i \in 1..NumSlots : heap.nodes[m_Root][i] = NULL
        /\ \A v \in Values : ReturnsTrue(Tree_IsUnique(heap, m_Root, v))

C3_Witness ==
    /\ last.op = "Reset"
    /\ Cardinality(last.before) >= 2
    /\ \E v \in last.before : Tree_IsUnique(heap, m_Root, v).ret

\* C4: of two consecutive IsUnique(v) calls with equal-length values, the
\* second returns false, and the first returns true when v was not fed
\* before it.
C4_TrueThenFalse ==
    \A i \in 1..(Len(fed) - 1) :
        fed[i] = fed[i + 1] =>
            /\ ~rets[i + 1].tree
            /\ (fed[i] \notin Earlier(fed, i) => rets[i].tree)

C4_Witness ==
    /\ Len(fed) = 3
    /\ fed[2] = fed[3]
    /\ fed[1] # fed[2]
    /\ Len(heap.edges) > 2
    /\ rets[2].tree /\ ~rets[3].tree

\* C5: a radix tree wrapper that processed a sequence of valid values holds
\* the count that ProcessDataset gives for every permutation of the sequence.
C5_OrderIndependent ==
    OnTree =>
        \A p \in Permutations(1..Len(fed)) :
            ProcessDataset(counter.m_NumExpectedDigits, Permuted(fed, p))
                = counter.m_Count

C5_Witness ==
    /\ OnTree
    /\ Len(fed) = 3
    /\ fed[1] = fed[3]
    /\ fed[1] # fed[2]
    /\ counter.m_Count = 2

\* the numbers the wrapper is specified to accept: exactly the expected
\* number of characters, digits only
IsValid(number, numExpectedDigits) ==
    /\ Len(number) = numExpectedDigits
    /\ \A i \in 1..Len(number) : number[i] \in Char0..Char9

Algorithms == {NullAlgorithm, Tree, Set}

\* C6: GetCount is the number of distinct valid values processed since the
\* wrapper was constructed, and a ProcessNumber call raises it by one exactly
\* when the detector returned true and leaves it unchanged otherwise.
C6_CountsDistinct ==
    /\ [](counter.exists => counter.m_Count = Cardinality(Range(fed)))
    /\ [][\A number \in Numbers :
            ProcessNumber(number) =>
              /\ fed' = IF IsValid(number, counter.m_NumExpectedDigits)
                        THEN Append(fed, number) ELSE fed
              /\ counter'.m_Count =
                    IF last'.err = NoError /\ last'.ret
                    THEN counter.m_Count + 1 ELSE counter.m_Count]_vars

C6_Witness ==
    /\ counter.exists
    /\ counter.m_Count = 2
    /\ Len(fed) = 3
    /\ last.op = "ProcessNumber" /\ last.err = NoError /\ ~last.ret

\* C7: ProcessNumber with a value of the wrong length or with a non-digit
\* character ends in an error and leaves the count and the detector's
\* state unchanged; IsUnique is not called.
C7_RejectedLeavesState ==
    [][\A number \in Numbers :
         (ProcessNumber(number) /\ ~IsValid(number, counter.m_NumExpectedDigits))
           => /\ last'.err # NoError
              /\ UNCHANGED <<heap, m_Root, m_Numbers, counter, fed, rets>>]_vars

C7_Witness ==
    /\ last.op = "ProcessNumber"
    /\ last.err = "Not a number"
    /\ counter.m_Count > 0
    /\ fed # <<>>

\* C8: constructing a wrapper with no detector or with zero expected digits
\* ends in an error, leaves the detectors as they were and leaves no wrapper.
C8_BadConstructFails ==
    [][\A algorithm \in Algorithms, n \in 0..MaxLen :
         (Construct(algorithm, n) /\ (algorithm = NullAlgorithm \/ n = 0))
           => /\ last'.err # NoError
              /\ ~counter'.exists
              /\ ~(ENABLED (\E number \in Numbers : ProcessNumber(number)))'
              /\ UNCHANGED <<heap, m_Root, m_Numbers, fed, rets>>]_vars

C8_Witness ==
    /\ last.op = "Construct"
    /\ last.err = "numExpectedDigits cannot be zero"
    /\ ~counter.exists
    /\ fed # <<>>

-----------------------------------------------------------------------------
(* Properties of the tree, in the three builds *)

SharePrefix(a, b) == a # <<>> /\ b # <<>> /\ a[1] = b[1]

\* no two edges of one node of h have labels with a common first character
SiblingsDiffer(h) ==
    \A n \in 1..Len(h.nodes) :
        \A i, j \in 1..Len(EdgesOf(h, n)) :
            i # j => ~SharePrefix(Label(h, EdgesOf(h, n)[i]),
                                  Label(h, EdgesOf(h, n)[j]))

\* C11: after any sequence of Resets and insertions of equal-length digit
\* strings, no two edges leaving the same node have labels that share a
\* non-empty common prefix, whichever collection class holds the edges.
C11_SiblingsShareNoPrefix ==
    \A edges_t \in Strategies : SiblingsDiffer(Build(edges_t))

\* a split below a root with two edges
C11_Witness ==
    /\ Len(EdgesOf(builds[UnorderedEdges], m_Root)) = 2
    /\ \E n \in 2..Len(builds[UnorderedEdges].nodes) :
          Len(EdgesOf(builds[UnorderedEdges], n)) = 2
    /\ \E n \in 2..Len(heap.nodes) : Len(EdgesOf(heap, n)) = 2

\* C12: after any sequence of Resets and IsUnique calls with non-empty digit
\* strings (of any length), every edge of the tree has a non-empty label, the
\* two edges made by a split included.
C12_LabelsNeverEmpty ==
    \A e \in 1..Len(heap.edges) : Label(heap, e) # <<>>

\* The tree below node n without the order of the edges in a node: the set of
\* the labels of its edges, each with the tree below the edge.
RECURSIVE Shape(_, _)
Shape(h, n) ==
    {<<Label(h, EdgesOf(h, n)[i]), Shape(h, h.edges[EdgesOf(h, n)[i]].m_Next)>> :
        i \in 1..Len(EdgesOf(h, n))}

\* C13: fed the same Resets and equal-length digit strings, the detectors
\* built with UnorderedEdges, OrderedEdges and IndexedEdges return the same
\* result on every call and hold the same tree after every call, up to the
\* order of the edges in a node.
C13_StrategiesAgree ==
    /\ \A i \in 1..Len(rets) :
          /\ rets[i].err = NoError
          /\ rets[i].errs = {NoError}
          /\ \A edges_t \in DOMAIN builds : rets[i].other[edges_t] = rets[i].tree
    /\ \A edges_t \in DOMAIN builds :
          Shape(builds[edges_t], m_Root) = Shape(heap, m_Root)

\* the list holds the root's edges in another order than the slots, and the
\* map holds an edge under a key that a split has made longer than its label
C13_Witness ==
    /\ Len(rets) = 3
    /\ EdgesOf(builds[UnorderedEdges], m_Root) # EdgesOf(heap, m_Root)
    /\ \E i \in 1..Len(builds[OrderedEdges].nodes[m_Root]) :
          builds[OrderedEdges].nodes[m_Root][i].first
            # Label(builds[OrderedEdges],
                    builds[OrderedEdges].nodes[m_Root][i].second)
    /\ Len(heap.nodes) = 5

\* the steps of the last call in the build with edges_t, from the tree it
\* started from
LastSteps(edges_t) ==
    Tree_IsUniqueSteps(last.from[edges_t], m_Root, fed[Len(fed)])

\* what the call recorded in entry returned in the build with edges_t
RetOf(edges_t, entry) ==
    IF edges_t = IndexedEdges THEN entry.tree ELSE entry.other[edges_t]

\* what the last call returned in the build with edges_t
LastRet(edges_t) == RetOf(edges_t, rets[Len(rets)])

\* the record the loop ended with, and the one the last Eat started from
LastStep(S) == S[Len(S)]
BeforeLast(S) == S[Len(S) - 1]

\* walking: every Eat but the last followed an edge to its node and changed
\* neither the tree nor isUnique
Walking(S) ==
    \A i \in 2..(Len(S) - 1) :
        /\ S[i].next # NULL
        /\ S[i].h = S[i - 1].h
        /\ ~S[i].isUnique
        /\ S[i].err = NoError

\* diverged: the last Eat made one split (two edges more) or one new edge
\* (one edge more), emptied the remainder and set isUnique
Diverged(S) ==
    /\ LastStep(S).isUnique
    /\ LastStep(S).err = NoError
    /\ LastStep(S).remainder = <<>>
    /\ LastStep(S).next = NULL
    /\ LastStep(S).h # BeforeLast(S).h
    /\ Len(LastStep(S).h.edges) - Len(BeforeLast(S).h.edges) \in {1, 2}

\* exhausted: the last Eat followed an edge as well and ate the last
\* characters; the tree is the one the call started with
Exhausted(S) ==
    /\ ~LastStep(S).isUnique
    /\ LastStep(S).err = NoError
    /\ LastStep(S).remainder = <<>>
    /\ LastStep(S).next # NULL
    /\ LastStep(S).h = S[1].h

\* the Eats of the call that changed the tree
Events(S) == {i \in 2..Len(S) : S[i].h # S[i - 1].h}

\* a call that walked S from h and ended with h2 and the result ret
CallEnds(S, h, h2, ret) ==
    /\ Len(S) >= 2
    /\ S[1].next = m_Root
    /\ Walking(S)
    /\ Diverged(S) \/ Exhausted(S)
    /\ Cardinality(Events(S)) <= 1
    /\ h2 = LastStep(S).h
    /\ ret = LastStep(S).isUnique
    /\ ret = (h2 # h)

SharedLen(a, b) ==
    Cardinality({i \in 1..Min(Len(a), Len(b)) : SubSeq(a, 1, i) = SubSeq(b, 1, i)})

\* suffix matches the label of edge e in part: on some but not all characters
PartialMatch(h, e, suffix) ==
    /\ 0 < SharedLen(Label(h, e), suffix)
    /\ SharedLen(Label(h, e), suffix) < Len(Label(h, e))

\* es are the two edges of the node a split of edge e on k characters made:
\* the rest of the label before the old child of e, and the rest of the
\* suffix before a new node without edges
TwoEdges(h, e, k, suffix, h2, es) ==
    /\ Len(es) = 2
    /\ \E i, j \in 1..2 :
          /\ i # j
          /\ es[i] > Len(h.edges)
          /\ es[j] > Len(h.edges)
          /\ h2.edges[es[i]] =
                [m_Value |-> SubSeq(Label(h, e), k + 1, Len(Label(h, e))),
                 m_Next |-> h.edges[e].m_Next]
          /\ Label(h2, es[j]) = SubSeq(suffix, k + 1, Len(suffix))
          /\ h2.edges[es[j]].m_Next > Len(h.nodes)
          /\ h2.edges[es[j]].m_Next # h2.edges[e].m_Next
          /\ EdgesOf(h2, h2.edges[es[j]].m_Next) = <<>>

\* h2 is h with edge e, matched by suffix on k characters, split
SplitOf(h, e, k, suffix, h2) ==
    /\ Len(h2.edges) = Len(h.edges) + 2
    /\ Len(h2.nodes) = Len(h.nodes) + 2
    /\ Label(h2, e) = SubSeq(Label(h, e), 1, k)
    /\ h2.edges[e].m_Next > Len(h.nodes)
    /\ TwoEdges(h, e, k, suffix, h2, EdgesOf(h2, h2.edges[e].m_Next))
    /\ Shape(h2, h.edges[e].m_Next) = Shape(h, h.edges[e].m_Next)
    /\ \A n \in 1..Len(h.nodes) : h2.nodes[n] = h.nodes[n]
    /\ \A e2 \in 1..Len(h.edges) : e2 # e => h2.edges[e2] = h.edges[e2]

\* the Eat that took r to r2 split every edge of its node that the remainder
\* matched in part
SplitStep(r, r2) ==
    \A i \in 1..Len(EdgesOf(r.h, r.next)) :
        PartialMatch(r.h, EdgesOf(r.h, r.next)[i], r.remainder) =>
            /\ SplitOf(r.h, EdgesOf(r.h, r.next)[i],
                       SharedLen(Label(r.h, EdgesOf(r.h, r.next)[i]), r.remainder),
                       r.remainder, r2.h)
            /\ r2.remainder = <<>>
            /\ r2.isUnique
            /\ r2.err = NoError

SplitSteps(S, h2, ret) ==
    /\ \A i \in 1..(Len(S) - 1) : SplitStep(S[i], S[i + 1])
    /\ h2 = LastStep(S).h
    /\ ret = LastStep(S).isUnique

RECURSIVE Paths(_, _)
Paths(h, n) ==
    IF EdgesOf(h, n) = <<>>
    THEN {<<>>}
    ELSE UNION {{Label(h, EdgesOf(h, n)[i]) \o path :
                    path \in Paths(h, h.edges[EdgesOf(h, n)[i]].m_Next)} :
                i \in 1..Len(EdgesOf(h, n))}

\* the strings spelled by the root-to-leaf paths; a root without edges
\* spells none
PathStrings(h, root) == IF EdgesOf(h, root) = <<>> THEN {} ELSE Paths(h, root)

\* h2 has every node and edge of h, each edge with its label or a prefix of it
Grown(h, h2) ==
    /\ Len(h2.nodes) >= Len(h.nodes)
    /\ Len(h2.edges) >= Len(h.edges)
    /\ \A e \in 1..Len(h.edges) :
          /\ Len(Label(h2, e)) <= Len(Label(h, e))
          /\ Label(h2, e) = SubSeq(Label(h, e), 1, Len(Label(h2, e)))

\* C16: between two Resets the tree only grows: the strings spelled by its
\* root-to-leaf paths are exactly the values inserted since the last Reset,
\* and an insertion leaves that set as it is or adds the inserted value.
C16_PathsAreValues ==
    /\ [](\A edges_t \in Strategies :
            PathStrings(Build(edges_t), m_Root) = Range(fed))
    /\ [](last.op = "IsUnique" =>
            \A edges_t \in Strategies :
                /\ Grown(last.from[edges_t], Build(edges_t))
                /\ PathStrings(Build(edges_t), m_Root)
                     = PathStrings(last.from[edges_t], m_Root) \cup {fed[Len(fed)]})

\* two values on a path with a split, and a call that added nothing
C16_Witness ==
    /\ Len(fed) = 3
    /\ Cardinality(PathStrings(heap, m_Root)) = 2
    /\ Len(EdgesOf(heap, m_Root)) = 1
    /\ Len(fed[1]) = 3
    /\ ~rets[3].tree

\* suffix starts with the whole label of edge e
FullMatch(h, e, suffix) ==
    /\ Label(h, e) # <<>>
    /\ SharedLen(Label(h, e), suffix) = Len(Label(h, e))

\* the Eat that took r to r2 followed every edge of its node whose label the
\* remainder starts with, and changed only current and the remainder
FullMatchStep(r, r2) ==
    \A i \in 1..Len(EdgesOf(r.h, r.next)) :
        FullMatch(r.h, EdgesOf(r.h, r.next)[i], r.remainder) =>
            /\ r2.h = r.h
            /\ r2.next = r.h.edges[EdgesOf(r.h, r.next)[i]].m_Next
            /\ r2.remainder =
                  SubSeq(r.remainder,
                         Len(Label(r.h, EdgesOf(r.h, r.next)[i])) + 1,
                         Len(r.remainder))
            /\ r2.isUnique = r.isUnique
            /\ r2.err = NoError

FullMatchSteps(S, h, h2, ret) ==
    /\ \A i \in 1..(Len(S) - 1) : FullMatchStep(S[i], S[i + 1])
    /\ h2 = LastStep(S).h
    /\ ret = LastStep(S).isUnique
    /\ ~ret => h2 = h

ParentsOf(h, n) == {e \in 1..Len(h.edges) : h.edges[e].m_Next = n}

\* the places, node and position in its container, that hold edge e
HoldersOf(h, e) ==
    UNION {{<<n, i>> : i \in {i \in 1..Len(EdgesOf(h, n)) : EdgesOf(h, n)[i] = e}} :
              n \in 1..Len(h.nodes)}

\* the nodes at the end of the edges of the nodes ns
ChildrenOf(h, ns) ==
    UNION {{h.edges[EdgesOf(h, n)[i]].m_Next : i \in 1..Len(EdgesOf(h, n))} :
              n \in ns}

\* the nodes reached from the nodes ns by one to k edges
RECURSIVE Below(_, _, _)
Below(h, ns, k) ==
    IF k = 0 \/ ns = {}
    THEN {}
    ELSE ChildrenOf(h, ns) \cup Below(h, ChildrenOf(h, ns), k - 1)

StrictTree(h, root) ==
    /\ ParentsOf(h, root) = {}
    /\ \A n \in 1..Len(h.nodes) : n # root => Cardinality(ParentsOf(h, n)) = 1
    /\ \A e \in 1..Len(h.edges) :
          /\ Cardinality(HoldersOf(h, e)) = 1
          /\ h.edges[e].m_Next \in 1..Len(h.nodes)
    /\ \A n \in 1..Len(h.nodes) : n \notin Below(h, {n}, Len(h.nodes))

\* the Eat that took r to r2, when it split an edge: the former child of the
\* edge has one parent, one of the two edges of the edge's new child
SplitMovesChild(r, r2) ==
    \A i \in 1..Len(EdgesOf(r.h, r.next)) :
        PartialMatch(r.h, EdgesOf(r.h, r.next)[i], r.remainder) =>
            /\ Cardinality(ParentsOf(r2.h, r.h.edges[EdgesOf(r.h, r.next)[i]].m_Next)) = 1
            /\ \A e \in ParentsOf(r2.h, r.h.edges[EdgesOf(r.h, r.next)[i]].m_Next) :
                  /\ e > Len(r.h.edges)
                  /\ HoldersOf(r2.h, e) \subseteq
                        {r2.h.edges[EdgesOf(r.h, r.next)[i]].m_Next} \X {1, 2}

SplitsMoveChild(S, h2) ==
    /\ \A i \in 1..(Len(S) - 1) : SplitMovesChild(S[i], S[i + 1])
    /\ h2 = LastStep(S).h

Terminates(S, value, h2, ret) ==
    /\ S[1].remainder = value
    /\ \A i \in 1..(Len(S) - 1) :
          /\ S[i].remainder # <<>>
          /\ Len(S[i + 1].remainder) < Len(S[i].remainder)
    /\ Len(S) - 1 <= Len(value)
    /\ LastStep(S).remainder = <<>>
    /\ LastStep(S).err = NoError
    /\ ~LastStep(S).ub
    /\ h2 = LastStep(S).h
    /\ ret = LastStep(S).isUnique

StartingLike(h, n, suffix) ==
    {e \in {EdgesOf(h, n)[i] : i \in 1..Len(EdgesOf(h, n))} :
        SharePrefix(Label(h, e), suffix)}

\* what Find has to return on node n for suffix: the edge whose label starts
\* like suffix with the number of characters they share, or no edge and 0
FindsTheEdge(h, n, suffix, ret) ==
    /\ ret.err = NoError
    /\ IF StartingLike(h, n, suffix) = {}
       THEN ret.first = 0 /\ ret.second = NULL
       ELSE /\ ret.second \in StartingLike(h, n, suffix)
            /\ ret.first = SharedLen(Label(h, ret.second), suffix)
            /\ ret.first > 0

\* the edges OrderedEdges::Find can look at: the one at upper_bound(suffix)
\* and the one before it
Inspected(c, iter) ==
    {c[i].second : i \in {iter - 1, iter} \cap (1..Len(c))}

AtMostOneShares(h, n, suffix) ==
    Cardinality({e \in Inspected(h.nodes[n], upper_bound(h.nodes[n], suffix)) :
                    SharePrefix(Label(h, e), suffix)}) <= 1

\* Find on node n of the build with OrderedEdges is right for suffix
FindIsRight(h, n, suffix) ==
    /\ FindsTheEdge(h, n, suffix, OrderedEdges_Find(h, n, suffix))
    /\ AtMostOneShares(h, n, suffix)

\* every Find of the call that walked S was right: each Eat but the last
\* started with one, on its node and remainder
FindsAreRight(S) ==
    \A i \in 1..(Len(S) - 1) : FindIsRight(S[i].h, S[i].next, S[i].remainder)

\* the suffixes Find is tried with on every node: the digit strings shorter
\* than the longest value
Suffixes == UNION {[1..n -> Digits] : n \in 1..(MaxLen - 1)}

\* C20: in every state of the build with OrderedEdges reached by inserting
\* equal-length digit strings, keys left behind by splits included, Find on
\* a non-empty suffix returns the edge whose label starts with the first
\* character of the suffix and the exact number of shared characters if
\* there is such an edge, no edge and 0 if not; at most one of the two edges
\* it looks at shares a prefix with the suffix.
C20_OrderedFindsTheEdge ==
    /\ [](\A n \in 1..Len(builds[OrderedEdges].nodes) :
            \A suffix \in Suffixes :
                \/ /\ builds[OrderedEdges].nodes[n] = <<>>
                   /\ OrderedEdges_Find(builds[OrderedEdges], n, suffix) = NoEdge
                \/ FindIsRight(builds[OrderedEdges], n, suffix))
    /\ [](last.op = "IsUnique" => FindsAreRight(LastSteps(OrderedEdges)))

\* the root's map holds two edges, the first under a key that a split left
\* longer than the label, and Find gets to it by the step back from
\* upper_bound
C20_Witness ==
    /\ Len(builds[OrderedEdges].nodes[m_Root]) = 2
    /\ builds[OrderedEdges].nodes[m_Root][1].first
         # Label(builds[OrderedEdges], builds[OrderedEdges].nodes[m_Root][1].second)
    /\ \E suffix \in Suffixes :
          /\ upper_bound(builds[OrderedEdges].nodes[m_Root], suffix) = 2
          /\ OrderedEdges_Find(builds[OrderedEdges], m_Root, suffix).second
               = builds[OrderedEdges].nodes[m_Root][1].second

\* what m_Edges.Find gave the Eat that started from r
FoundBy(r) == Edges_Find(r.h, r.next, r.remainder)

\* the arguments pass the checks of Edge::Eat
EdgeEatAccepts(h, e, numCommonChars, remainder) ==
    /\ e \in 1..Len(h.edges)
    /\ remainder # <<>>
    /\ numCommonChars >= 1
    /\ numCommonChars <= Min(Len(Label(h, e)), Len(remainder))

\* firstEdge and secondEdge of the split of edge e on numCommonChars
\* characters, as Edge::Eat makes them
SplitEdges(h, e, numCommonChars, remainder, firstEdge) ==
    <<firstEdge.e,
      Edge_New(firstEdge.h, SubstrFrom(remainder, numCommonChars), NULL).e>>

\* the arguments pass the check of Node::Node(firstEdge, secondEdge) when
\* Edge::Eat splits the edge
SplitAccepted(h, e, numCommonChars, remainder) ==
    numCommonChars < Len(Label(h, e)) =>
        \A i \in 1..2 :
            SplitEdges(h, e, numCommonChars, remainder,
                       Edge_New(h, SubstrFrom(Label(h, e), numCommonChars),
                                h.edges[e].m_Next))[i] # NULL

\* the Eat that took r to r2 met none of the checks of arguments: Node::Eat
\* and GetNumCommonChars got a remainder that is not empty, Edge::Eat, when
\* called, a remainder and a numCommonChars it accepts, the constructor of
\* the split two edges
EatInRange(r, r2) ==
    /\ r.remainder # <<>>
    /\ FoundBy(r).err = NoError
    /\ FoundBy(r).first > 0 =>
          /\ EdgeEatAccepts(r.h, FoundBy(r).second, FoundBy(r).first, r.remainder)
          /\ SplitAccepted(r.h, FoundBy(r).second, FoundBy(r).first, r.remainder)
    /\ r2.err = NoError

EatsInRange(S, h2) ==
    /\ \A i \in 1..(Len(S) - 1) : EatInRange(S[i], S[i + 1])
    /\ LastStep(S).err = NoError
    /\ h2 = LastStep(S).h

\* C22: fed equal-length digit strings, as the wrapper passes them on, the
\* engine never gets to one of its internal errors: Node::Eat and Edge::Eat
\* are never entered with an empty remainder, numCommonChars is always
\* between 1 and min(label length, remainder length), and
\* Node(firstEdge, secondEdge) never gets a missing edge.
C22_NoInternalError ==
    /\ [](\A i \in 1..Len(rets) :
            rets[i].err = NoError /\ rets[i].errs = {NoError})
    /\ [](last.op = "IsUnique" =>
            \A edges_t \in Strategies :
                EatsInRange(LastSteps(edges_t), Build(edges_t)))

\* a call has followed an edge on its whole label and split the next one
C22_Witness ==
    /\ last.op = "IsUnique"
    /\ last.changed
    /\ Len(fed) = 3
    /\ Len(heap.edges) = 5
    /\ \A edges_t \in Strategies :
          /\ Len(LastSteps(edges_t)) = 3
          /\ FoundBy(LastSteps(edges_t)[2]).first > 0
          /\ FoundBy(LastSteps(edges_t)[2]).first
               < Len(Label(last.from[edges_t], FoundBy(LastSteps(edges_t)[2]).second))

\* every node of h but the root has no edge or at least two
Compact(h, root) ==
    \A n \in 1..Len(h.nodes) : n # root => Len(EdgesOf(h, n)) # 1

\* the numbers of characters on the paths from node n to the leaves
RECURSIVE PathLengths(_, _)
PathLengths(h, n) ==
    IF EdgesOf(h, n) = <<>>
    THEN {0}
    ELSE UNION {{Len(Label(h, EdgesOf(h, n)[i])) + k :
                    k \in PathLengths(h, h.edges[EdgesOf(h, n)[i]].m_Next)} :
                i \in 1..Len(EdgesOf(h, n))}

\* C23: in every state reached by inserting equal-length digit strings of
\* width W the tree is compact: every node but the root is a leaf or has at
\* least two edges, and the labels on every root-to-leaf path have W
\* characters in all.
C23_CompactTree ==
    \A edges_t \in Strategies :
        /\ Compact(Build(edges_t), m_Root)
        /\ fed # <<>> => PathLengths(Build(edges_t), m_Root) = {Len(fed[1])}

\* under the one edge of the root a node has three edges, two from a split
\* and one added later
C23_Witness ==
    /\ Len(fed) = 3
    /\ Len(fed[1]) = MaxLen
    /\ \A edges_t \in Strategies :
          /\ Len(EdgesOf(Build(edges_t), m_Root)) = 1
          /\ \E n \in 1..Len(Build(edges_t).nodes) :
                n # m_Root /\ Len(EdgesOf(Build(edges_t), n)) = 3

-----------------------------------------------------------------------------
(* Properties of IndexedEdges *)

\* every edge of h is held in the slot of the first character of its label
InItsSlot(h) ==
    \A n \in 1..Len(h.nodes) :
        \A i \in 1..Len(h.nodes[n]) :
            h.nodes[n][i] # NULL => SlotOf(Label(h, h.nodes[n][i])) = i - 1

\* every edge of h is held by a node: no Add has taken the slot of another
AllHeld(h) ==
    \A e \in 1..Len(h.edges) :
        \E n \in 1..Len(h.nodes) :
            \E i \in 1..Len(h.nodes[n]) : h.nodes[n][i] = e

\* every slot of h that held an edge holds the same edge in h2
SlotsKept(h, h2) ==
    \A n \in 1..Len(h.nodes) :
        \A i \in 1..Len(h.nodes[n]) :
            h.nodes[n][i] # NULL => h2.nodes[n][i] = h.nodes[n][i]

\* every Find of the call that walked S indexed one of the ten slots
FindsInRange(S) ==
    \A i \in 1..(Len(S) - 1) :
        SlotOf(S[i].remainder) \in 0..(NumSlots - 1)

\* the call that walked S from h and ended with h2 added its edges to empty
\* slots
AddsToEmpty(S, h, h2) ==
    /\ \A i \in 1..(Len(S) - 1) : SlotsKept(S[i].h, S[i + 1].h)
    /\ ~LastStep(S).ub
    /\ h2 = LastStep(S).h
    /\ SlotsKept(h, h2)

\* C24: with IndexedEdges, fed equal-length digit strings, every Add writes a
\* slot in 0..9 that is empty at that moment, so no edge is overwritten and
\* a node holds at most ten edges, and every Find reads a slot in 0..9.
C24_SlotsInRange ==
    /\ [](/\ ~ub
          /\ InItsSlot(heap)
          /\ AllHeld(heap)
          /\ \A n \in 1..Len(heap.nodes) :
                /\ Len(heap.nodes[n]) = NumSlots
                /\ Len(EdgesOf(heap, n)) <= NumSlots)
    /\ [](last.op = "IsUnique" =>
            /\ FindsInRange(LastSteps(IndexedEdges))
            /\ AddsToEmpty(LastSteps(IndexedEdges), last.from[IndexedEdges], heap))

\* a split has put edges in the first and in the last slot of a new node,
\* and a later call has added an edge between them
C24_Witness ==
    /\ last.op = "IsUnique"
    /\ last.changed
    /\ \E n \in 1..Len(heap.nodes) :
          /\ n # m_Root
          /\ heap.nodes[n][1] # NULL
          /\ heap.nodes[n][NumSlots] # NULL
          /\ Len(EdgesOf(heap, n)) = 3
          /\ Len(EdgesOf(last.from[IndexedEdges], n)) = 2

-----------------------------------------------------------------------------
(* Properties of Node::Eat and Edge::Eat called on their own *)

\* the arguments of the last call are ones Node::Eat has to refuse
RefusedByNode == last.op = "Node::Eat" /\ last.remainder = <<>>

\* the arguments of the last call are ones Edge::Eat has to refuse
RefusedByEdge ==
    /\ last.op = "Edge::Eat"
    /\ \/ last.remainder = <<>>
       \/ last.numCommonChars = 0
       \/ last.numCommonChars >
            Min(Len(Label(last.from, last.at)), Len(last.remainder))

\* the last call raised and left the tree and the caller's remainder and
\* isUnique as they were
EndedInError ==
    /\ last.out.err # NoError
    /\ ~ub
    /\ heap = last.from
    /\ last.out.remainder = last.remainder
    /\ last.out.isUnique = last.isUnique

\* C21: Node::Eat called with an empty remainder, and Edge::Eat called with
\* an empty remainder or with numCommonChars 0 or greater than
\* min(label length, remainder length), end in an error and leave the tree,
\* the remainder and isUnique unchanged.
C21_BadArgumentsRaise == (RefusedByNode \/ RefusedByEdge) => EndedInError

\* Edge::Eat has refused a numCommonChars longer than the remainder, on an
\* edge of a tree with a split, for a remainder that starts like the label
C21_Witness ==
    /\ RefusedByEdge
    /\ EndedInError
    /\ Len(heap.edges) = 3
    /\ last.remainder # <<>>
    /\ last.numCommonChars > Len(last.remainder)
    /\ last.numCommonChars <= Len(Label(heap, last.at))
    /\ SharePrefix(Label(heap, last.at), last.remainder)

====
